---- MODULE Spec2Model ----
(***************************************************************************)
(* Model of loam::VelodyneScanRegistration                                 *)
(* (src/src/lib/VelodyneScanRegistration.cpp).                             *)
(*                                                                         *)
(* Units.  Lengths are integer centimetres.  Angles are integers in units  *)
(* of 45 degrees (M_PI = 4); raw points lie on the eight compass           *)
(* directions (|x| = |y| or one of them 0), where atan2 is exact in these  *)
(* units.  Vertical angles are integer millidegrees.  ros::Time is an      *)
(* integer number of ticks, TicksPerSec ticks to the second.  relTime, the *)
(* packed intensity and the interpolation ratio are exact fractions        *)
(* num/den with den > 0.  A float that is NaN is the value NaN.            *)
(***************************************************************************)
EXTENDS Integers, Sequences, FiniteSets

(***************************************************************************)
(* Bounds of the model                                                     *)
(***************************************************************************)
\* _nScans, the ring count the node is constructed with
NScans == 3
\* longest sweep of the ring-assembly specification
MaxPts == 3
\* longest sweep of the unwrap specification
MaxUnwrapPts == 3
\* longest sweep of the motion-compensation specification
MaxImuPts == 4
\* longest orientation history
MaxHist == 2
\* sweeps handed to process() in the start-up specification
MaxDelaySweeps == 3

(***************************************************************************)
(* Program constants                                                       *)
(***************************************************************************)
\* _systemDelay(20)
SystemDelay == 20
\* M_PI, in units of 45 degrees
PI == 4
\* 0.0001 m^2, the squared-norm threshold, in cm^2
NormSqMin == 1
\* not-a-number, the value of a float for which pcl_isfinite is false
NaN == -1000000
\* largest value of size_t, scaled to TLC's 32-bit integers
SIZE_MAX == 2147483647
\* _scanPeriod = ScanPeriodNum / ScanPeriodDen seconds (0.1 s)
ScanPeriodNum == 1
ScanPeriodDen == 10
\* resolution of ros::Time in the model: one scan period is two ticks
TicksPerSec == 20
\* 180 / M_PI degrees per radian, in millidegrees
MilliDegPerRad == 57296
\* length of a horizontal unit vector, in cm
H == 100

Rings == 0 .. (NScans - 1)

(***************************************************************************)
(* float arithmetic with NaN                                               *)
(***************************************************************************)
IsNaN(a) == a = NaN
FAdd(a, b) == IF IsNaN(a) \/ IsNaN(b) THEN NaN ELSE a + b
FSub(a, b) == IF IsNaN(a) \/ IsNaN(b) THEN NaN ELSE a - b
FNeg(a) == IF IsNaN(a) THEN NaN ELSE 0 - a
FLt(a, b) == ~IsNaN(a) /\ ~IsNaN(b) /\ a < b
FGt(a, b) == ~IsNaN(a) /\ ~IsNaN(b) /\ a > b

Sgn(a) == IF a > 0 THEN 1 ELSE IF a < 0 THEN -1 ELSE 0
Abs(a) == IF a < 0 THEN 0 - a ELSE a
\* C++ conversion of a float to int: truncation toward zero
TruncDiv(n, d) == IF n >= 0 THEN n \div d ELSE 0 - ((0 - n) \div d)

\* a fraction num/den, den > 0; x/0 has no finite value
FracNaN == [nan |-> TRUE, num |-> 0, den |-> 1]
MkFrac(n, d) ==
    IF d = 0 THEN FracNaN
    ELSE IF d < 0 THEN [nan |-> FALSE, num |-> 0 - n, den |-> 0 - d]
    ELSE [nan |-> FALSE, num |-> n, den |-> d]
FracZero == MkFrac(0, 1)

\* std::atan2(y, x) on the compass directions, in units of 45 degrees
Atan2(y, x) ==
    IF IsNaN(y) \/ IsNaN(x) THEN NaN
    ELSE CASE Sgn(y) = 0 /\ Sgn(x) >= 0 -> 0
           [] Sgn(y) = 0 /\ Sgn(x) < 0 -> PI
           [] Sgn(y) # 0 /\ Sgn(x) = 0 -> Sgn(y) * (PI \div 2)
           [] Sgn(y) # 0 /\ Sgn(x) > 0 -> Sgn(y) * (PI \div 4)
           [] Sgn(y) # 0 /\ Sgn(x) < 0 -> Sgn(y) * ((3 * PI) \div 4)

\* std::sqrt of the squared horizontal norm, to the centimetre
ISqrt(n) == CHOOSE r \in 0 .. (2 * H) : r * r <= n /\ n < (r + 1) * (r + 1)

\* std::atan(py / h) * 180 / M_PI in millidegrees: +-90 degrees for h = 0
\* (py / 0 = +-inf), else the arctangent of py / h, linear in py / h
\* (exact to 0.01 degree for |py / h| <= 0.1 and increasing beyond, which
\* is all the comparison against the ring range reads)
VertAngle(py, h) ==
    IF h = 0 THEN Sgn(py) * 90000
    ELSE Sgn(py) * ((Abs(py) * MilliDegPerRad) \div h)

(***************************************************************************)
(* State                                                                   *)
(***************************************************************************)
VARIABLES
    systemDelay,        \* _systemDelay
    received,           \* cloud messages delivered to processCloudMessage
    processedLog,       \* arrival numbers of the messages handed to process()
    pc,                 \* position of the node: idle, or inside process()
    laserCloudIn,       \* the sweep being processed
    scanTime,           \* its time stamp, in ticks
    startOri, endOri,   \* locals of process()
    imuIdx, halfPassed, point, laserCloudScans, i,
    stage,              \* what the last loop iteration did with its point
    oriLog,             \* the value of ori in each iteration that computed it
    laserCloud,         \* _laserCloud
    scanStartIndices,   \* _scanStartIndices
    scanEndIndices,     \* _scanEndIndices
    imuHistory,         \* _imuHistory, the time stamps of its states
    imuStartIdx,        \* _imuStartIdx
    imuCur,             \* _imuCur
    extracted,          \* extractFeatures() was called for this sweep
    published           \* publishResult() was called for this sweep

vars == <<systemDelay, received, processedLog, pc, laserCloudIn, scanTime,
          startOri, endOri, imuIdx, halfPassed, point, laserCloudScans, i,
          stage, oriLog, laserCloud, scanStartIndices, scanEndIndices,
          imuHistory, imuStartIdx, imuCur, extracted, published>>

\* the locals and members process() writes
sweepVars == <<processedLog, laserCloudIn, scanTime, startOri, endOri, imuIdx,
               halfPassed, point, laserCloudScans, i, stage, oriLog,
               laserCloud, scanStartIndices, scanEndIndices, imuStartIdx,
               imuCur, extracted, published>>

\* _imuCur before any point is compensated: the state reset() leaves
ImuStart == [kind |-> "start", idx |-> 0, ratio |-> FracZero]
\* coordinates no transform was applied to
NoComp == [kind |-> "none", idx |-> 0, ratio |-> FracZero]
\* pcl::PointXYZI point: the default-constructed point
ZeroPoint == [x |-> 0, y |-> 0, z |-> 0, intensity |-> FracZero, comp |-> NoComp]
EmptyScans == [r \in Rings |-> <<>>]

(***************************************************************************)
(* processCloudMessage: the start-up delay                                 *)
(***************************************************************************)
DelayPendingOffByOne(delay) == delay > 1
\* if (_systemDelay > 0)
DelayPending(delay) == delay > 0

(***************************************************************************)
(* process: sweep orientation                                              *)
(***************************************************************************)
\* float startOri = -std::atan2(points[0].y, points[0].x)
StartOri(first) == FNeg(Atan2(first.y, first.x))

CorrectEndOriNoAdd(s, e) ==
    IF FGt(FSub(e, s), 3 * PI) THEN FSub(e, 2 * PI) ELSE e
\* if (endOri - startOri > 3 * M_PI) endOri -= 2 * M_PI;
\* else if (endOri - startOri < M_PI) endOri += 2 * M_PI;
CorrectEndOri(s, e) ==
    IF FGt(FSub(e, s), 3 * PI) THEN FSub(e, 2 * PI)
    ELSE IF FLt(FSub(e, s), PI) THEN FAdd(e, 2 * PI)
    ELSE e

\* float endOri = -std::atan2(points[cloudSize - 1].y, ...x) + 2 * M_PI,
\* then the correction
EndOri(s, last) == CorrectEndOri(s, FAdd(FNeg(Atan2(last.y, last.x)), 2 * PI))

(***************************************************************************)
(* process: the per-point classifier                                       *)
(***************************************************************************)
\* point.x = in.y; point.y = in.z; point.z = in.x
Remap(p, raw) ==
    [p EXCEPT !.x = raw.y, !.y = raw.z, !.z = raw.x, !.comp = NoComp]

\* pcl_isfinite on the three coordinates
IsFinitePoint(p) == ~IsNaN(p.x) /\ ~IsNaN(p.y) /\ ~IsNaN(p.z)

\* point.x * point.x + point.y * point.y + point.z * point.z < 0.0001
IsZeroPoint(p) == p.x * p.x + p.y * p.y + p.z * p.z < NormSqMin

\* float angle = atan(point.y / sqrt(point.x^2 + point.z^2)) * 180 / M_PI
ScanAngle(p) == VertAngle(p.y, ISqrt(p.x * p.x + p.z * p.z))

\* int roundedAngle = int(angle + (angle < 0.0 ? -0.5 : 0.5))
RoundedAngle(angle) ==
    TruncDiv(angle + (IF angle < 0 THEN -500 ELSE 500), 1000)

\* int scanID = roundedAngle > 0 ? roundedAngle : roundedAngle + (_nScans - 1)
ScanID(r) == IF r > 0 THEN r ELSE r + (NScans - 1)

\* if (scanID > (_nScans - 1) || scanID < 0) continue
RingOutOfRange(scanID) == scanID > (NScans - 1) \/ scanID < 0

\* float ori = -std::atan2(point.x, point.z), unwrapped: the value of ori
\* and of halfPassed after lines 131-150
UnwrapOri(p, s, e, half) ==
    LET ori0 == FNeg(Atan2(p.x, p.z))
    IN  IF ~half
        THEN LET ori1 == IF FLt(ori0, FSub(s, PI \div 2)) THEN FAdd(ori0, 2 * PI)
                         ELSE IF FGt(ori0, FAdd(s, (PI * 3) \div 2))
                         THEN FSub(ori0, 2 * PI)
                         ELSE ori0
             IN  [ori |-> ori1, halfPassed |-> FGt(FSub(ori1, s), PI)]
        ELSE LET ori1 == FAdd(ori0, 2 * PI)
                 ori2 == IF FLt(ori1, FSub(e, (PI * 3) \div 2))
                         THEN FAdd(ori1, 2 * PI)
                         ELSE IF FGt(ori1, FAdd(e, PI \div 2))
                         THEN FSub(ori1, 2 * PI)
                         ELSE ori1
             IN  [ori |-> ori2, halfPassed |-> TRUE]

\* float relTime = _scanPeriod * (ori - startOri) / (endOri - startOri)
RelTime(ori, s, e) ==
    IF IsNaN(ori) \/ IsNaN(s) \/ IsNaN(e) THEN FracNaN
    ELSE MkFrac(ScanPeriodNum * (ori - s), ScanPeriodDen * (e - s))

\* point.intensity = scanID + relTime
Intensity(scanID, rel) ==
    IF rel.nan THEN FracNaN
    ELSE [nan |-> FALSE, num |-> scanID * rel.den + rel.num, den |-> rel.den]

(***************************************************************************)
(* process: projection to the start of the sweep                           *)
(***************************************************************************)
\* (scanTime - _imuHistory[idx].stamp).toSec() + relTime > 0, idx from 0
AfterStamp(hist, idx, t, rel) ==
    /\ ~rel.nan
    /\ (t - hist[idx + 1]) * rel.den + rel.num * TicksPerSec > 0

\* while (imuIdx < _imuHistory.size() - 1 && ... > 0) imuIdx++
RECURSIVE AdvanceCursor(_, _, _, _)
AdvanceCursor(hist, idx, t, rel) ==
    IF idx < Len(hist) - 1 /\ AfterStamp(hist, idx, t, rel)
    THEN AdvanceCursor(hist, idx + 1, t, rel)
    ELSE idx

UsesEntryFirstOnly(hist, idx, t, rel) == idx = 0
\* if (imuIdx == 0 || (scanTime - stamp).toSec() + relTime > 0)
UsesEntry(hist, idx, t, rel) == idx = 0 \/ AfterStamp(hist, idx, t, rel)

\* float ratio = ((stamp[idx] - scanTime).toSec() - relTime)
\*             / (stamp[idx] - stamp[idx - 1]).toSec()
Ratio(hist, idx, t, rel) ==
    IF rel.nan THEN FracNaN
    ELSE MkFrac((hist[idx + 1] - t) * rel.den - rel.num * TicksPerSec,
                rel.den * (hist[idx + 1] - hist[idx]))

\* the value of _imuCur after lines 162-168
ImuCurFor(hist, idx, t, rel) ==
    IF UsesEntry(hist, idx, t, rel)
    THEN [kind |-> "entry", idx |-> idx, ratio |-> FracZero]
    ELSE [kind |-> "interp", idx |-> idx, ratio |-> Ratio(hist, idx, t, rel)]

\* transformToStartIMU(point, relTime): the coordinates are re-expressed by
\* the state in _imuCur; the packed scalar is left alone
TransformToStartIMU(p, cur) == [p EXCEPT !.comp = cur]

HasImuHistoryAlways(hist) == TRUE
\* if (_imuHistory.size() > 0)
HasImuHistory(hist) == Len(hist) > 0

\* reset(scanTime): the cursor start is the first state at or after the
\* sweep's time stamp (the last state when there is none)
ResetImuStartIdx(hist, t) ==
    IF Len(hist) = 0 THEN 0 ELSE AdvanceCursor(hist, 0, t, FracZero)

(***************************************************************************)
(* process: ring assembly                                                  *)
(***************************************************************************)
\* cloudSize after the first r iterations of the assembly loop
RECURSIVE SizeBefore(_, _)
SizeBefore(scans, r) ==
    IF r = 0 THEN 0 ELSE SizeBefore(scans, r - 1) + Len(scans[r - 1])

\* what the first r iterations append to *_laserCloud
RECURSIVE Concat(_, _)
Concat(scans, r) ==
    IF r = 0 THEN <<>> ELSE Concat(scans, r - 1) \o scans[r - 1]

\* _scanStartIndices[i] = cloudSize
ScanStartIndex(size) == size

ScanEndIndexOffByOne(size) == size
\* _scanEndIndices[i] = cloudSize - 1, cloudSize a size_t
ScanEndIndex(size) == IF size = 0 THEN SIZE_MAX ELSE size - 1

(***************************************************************************)
(* Inputs                                                                  *)
(***************************************************************************)
SeqsUpTo(S, n) == UNION {[1 .. k -> S] : k \in 0 .. n}
RawPt(px, py, pz) == [x |-> px, y |-> py, z |-> pz]

\* time stamps of the sweeps, in ticks
SweepStamps == {1}
\* one scan period, in ticks
ScanPeriodTicks == (TicksPerSec * ScanPeriodNum) \div ScanPeriodDen
\* time stamps of orientation states: from one tick before a sweep starts
\* to the tick it ends
ImuStamps == 0 .. (1 + ScanPeriodTicks)

\* the eight compass directions, level: every point lands in ring NScans - 1
UnwrapPoints ==
    {RawPt(px, py, 0) : px \in {0 - H, 0, H}, py \in {0 - H, 0, H}}
        \ {RawPt(0, 0, 0)}
\* three axis directions, level: a quarter and a half turn apart
ImuPoints == {RawPt(H, 0, 0), RawPt(0, H, 0), RawPt(0, 0 - H, 0)}
\* points of every kind the validity filter tells apart: below the lowest
\* ring, in ring 0, in ring 1, in the top ring, a return at the origin,
\* a non-finite return
RingPoints ==
    {RawPt(H, 0, 0 - 6), RawPt(H, 0, 0 - 3), RawPt(0, H, 2), RawPt(0 - H, 0, 0),
     RawPt(0, 0, 0), RawPt(NaN, NaN, NaN)}
\* one level point east, one level point west
DelayPoints == {RawPt(H, 0, 0), RawPt(0 - H, 0, 0)}

Msgs(P, n) == {[points |-> s, stamp |-> t] : s \in SeqsUpTo(P, n), t \in SweepStamps}
RingMsgs == Msgs(RingPoints, MaxPts)
UnwrapMsgs == Msgs(UnwrapPoints, MaxUnwrapPts)
ImuMsgs == Msgs(ImuPoints, MaxImuPts)
DelayMsgs == Msgs(DelayPoints, 1)
\* the sweep without points
EmptyMsgs == Msgs({}, 0)

(***************************************************************************)
(* Initial state: the node after construction                              *)
(***************************************************************************)
Init ==
    /\ systemDelay = SystemDelay
    /\ received = 0
    /\ processedLog = <<>>
    /\ pc = "idle"
    /\ laserCloudIn = <<>>
    /\ scanTime = 0
    /\ startOri = 0
    /\ endOri = 0
    /\ imuIdx = 0
    /\ halfPassed = FALSE
    /\ point = ZeroPoint
    /\ laserCloudScans = EmptyScans
    /\ i = 0
    /\ stage = "none"
    /\ oriLog = <<>>
    /\ laserCloud = <<>>
    /\ scanStartIndices = [r \in Rings |-> 0]
    /\ scanEndIndices = [r \in Rings |-> 0]
    /\ imuHistory = <<>>
    /\ imuStartIdx = 0
    /\ imuCur = ImuStart
    /\ extracted = FALSE
    /\ published = FALSE

(***************************************************************************)
(* Actions                                                                 *)
(***************************************************************************)
\* process(), lines 84-102: reset(scanTime), the sweep orientation from the
\* points read as first and last, the locals of the loop
EnterProcess(msg, first, last) ==
    /\ processedLog' = Append(processedLog, received + 1)
    /\ laserCloudIn' = msg.points
    /\ scanTime' = msg.stamp
    /\ laserCloud' = <<>>
    /\ imuStartIdx' = ResetImuStartIdx(imuHistory, msg.stamp)
    /\ imuCur' = ImuStart
    /\ startOri' = StartOri(first)
    /\ endOri' = EndOri(StartOri(first), last)
    /\ imuIdx' = ResetImuStartIdx(imuHistory, msg.stamp)
    /\ halfPassed' = FALSE
    /\ point' = ZeroPoint
    /\ laserCloudScans' = EmptyScans
    /\ i' = 0
    /\ stage' = "none"
    /\ oriLog' = <<>>
    /\ extracted' = FALSE
    /\ published' = FALSE
    /\ pc' = "loop"
    /\ UNCHANGED <<systemDelay, scanStartIndices, scanEndIndices, imuHistory>>

\* processCloudMessage while the delay lasts, lines 67-70: the message is
\* dropped unread
ProcessCloudMessageDelay(cap) ==
    /\ pc = "idle"
    /\ received < cap
    /\ DelayPending(systemDelay)
    /\ received' = received + 1
    /\ systemDelay' = systemDelay - 1
    /\ UNCHANGED <<pc, imuHistory>>
    /\ UNCHANGED sweepVars

\* processCloudMessage after the delay, lines 72-76: a message of msgs is
\* handed to process()
ProcessCloudMessage(msgs, cap) ==
    /\ pc = "idle"
    /\ received < cap
    /\ ~DelayPending(systemDelay)
    /\ \E msg \in msgs :
          /\ Len(msg.points) > 0
          /\ received' = received + 1
          /\ EnterProcess(msg, msg.points[1], msg.points[Len(msg.points)])

\* process() of an empty sweep: points[0] and points[cloudSize - 1] are read
\* outside the vector, and the reads return whatever lies there, here two
\* points of garbage
ProcessEmptyCloud(garbage, cap) ==
    /\ pc = "idle"
    /\ received < cap
    /\ ~DelayPending(systemDelay)
    /\ \E msg \in EmptyMsgs, first \in garbage, last \in garbage :
          /\ received' = received + 1
          /\ EnterProcess(msg, first, last)

\* process() of an empty sweep: the reads outside the vector fault
ProcessEmptyCloudFault(cap) ==
    /\ pc = "idle"
    /\ received < cap
    /\ ~DelayPending(systemDelay)
    /\ \E msg \in EmptyMsgs :
          /\ received' = received + 1
          /\ processedLog' = Append(processedLog, received + 1)
          /\ laserCloudIn' = msg.points
          /\ scanTime' = msg.stamp
          /\ imuStartIdx' = ResetImuStartIdx(imuHistory, msg.stamp)
    /\ laserCloud' = <<>>
    /\ imuCur' = ImuStart
    /\ extracted' = FALSE
    /\ published' = FALSE
    /\ pc' = "crashed"
    /\ UNCHANGED <<systemDelay, startOri, endOri, imuIdx, halfPassed, point,
                   laserCloudScans, i, stage, oriLog, scanStartIndices,
                   scanEndIndices, imuHistory>>

\* one iteration of the loop over the input points, lines 105-174
ClassifyPoint ==
    /\ pc = "loop"
    /\ i < Len(laserCloudIn)
    /\ i' = i + 1
    /\ LET p1 == Remap(point, laserCloudIn[i + 1])
           scanID == ScanID(RoundedAngle(ScanAngle(p1)))
           u == UnwrapOri(p1, startOri, endOri, halfPassed)
           rel == RelTime(u.ori, startOri, endOri)
           p2 == [p1 EXCEPT !.intensity = Intensity(scanID, rel)]
           idx == AdvanceCursor(imuHistory, imuIdx, scanTime, rel)
           cur == ImuCurFor(imuHistory, idx, scanTime, rel)
       IN  IF ~IsFinitePoint(p1)
           THEN /\ point' = p1
                /\ stage' = "nonfinite"
                /\ UNCHANGED <<halfPassed, oriLog, imuIdx, imuCur, laserCloudScans>>
           ELSE IF IsZeroPoint(p1)
           THEN /\ point' = p1
                /\ stage' = "zero"
                /\ UNCHANGED <<halfPassed, oriLog, imuIdx, imuCur, laserCloudScans>>
           ELSE IF RingOutOfRange(scanID)
           THEN /\ point' = p1
                /\ stage' = "ring"
                /\ UNCHANGED <<halfPassed, oriLog, imuIdx, imuCur, laserCloudScans>>
           ELSE /\ halfPassed' = u.halfPassed
                /\ oriLog' = Append(oriLog, u.ori)
                /\ stage' = "stored"
                /\ IF HasImuHistory(imuHistory)
                   THEN /\ imuIdx' = idx
                        /\ imuCur' = cur
                        /\ point' = TransformToStartIMU(p2, cur)
                        /\ laserCloudScans' =
                             [laserCloudScans EXCEPT
                                ![scanID] = Append(@, TransformToStartIMU(p2, cur))]
                   ELSE /\ UNCHANGED <<imuIdx, imuCur>>
                        /\ point' = p2
                        /\ laserCloudScans' =
                             [laserCloudScans EXCEPT ![scanID] = Append(@, p2)]
    /\ UNCHANGED <<systemDelay, received, processedLog, pc, laserCloudIn,
                   scanTime, startOri, endOri, laserCloud, scanStartIndices,
                   scanEndIndices, imuHistory, imuStartIdx, extracted, published>>

\* the loop over the rings, lines 177-184
AssembleRings ==
    /\ pc = "loop"
    /\ i = Len(laserCloudIn)
    /\ laserCloud' = laserCloud \o Concat(laserCloudScans, NScans)
    /\ scanStartIndices' =
         [r \in Rings |-> ScanStartIndex(SizeBefore(laserCloudScans, r))]
    /\ scanEndIndices' =
         [r \in Rings |-> ScanEndIndex(SizeBefore(laserCloudScans, r + 1))]
    /\ pc' = "extract"
    /\ UNCHANGED <<systemDelay, received, processedLog, laserCloudIn, scanTime,
                   startOri, endOri, imuIdx, halfPassed, point, laserCloudScans,
                   i, stage, oriLog, imuHistory, imuStartIdx, imuCur, extracted,
                   published>>

\* extractFeatures(), line 187
ExtractFeatures ==
    /\ pc = "extract"
    /\ extracted' = TRUE
    /\ pc' = "imutrans"
    /\ UNCHANGED <<systemDelay, received, processedLog, laserCloudIn, scanTime,
                   startOri, endOri, imuIdx, halfPassed, point, laserCloudScans,
                   i, stage, oriLog, laserCloud, scanStartIndices,
                   scanEndIndices, imuHistory, imuStartIdx, imuCur, published>>

\* setIMUTrans(_scanPeriod), line 190
SetIMUTrans ==
    /\ pc = "imutrans"
    /\ pc' = "publish"
    /\ UNCHANGED <<systemDelay, received, processedLog, laserCloudIn, scanTime,
                   startOri, endOri, imuIdx, halfPassed, point, laserCloudScans,
                   i, stage, oriLog, laserCloud, scanStartIndices,
                   scanEndIndices, imuHistory, imuStartIdx, imuCur, extracted,
                   published>>

\* publishResult(), line 193, and the return to the caller
PublishResult ==
    /\ pc = "publish"
    /\ published' = TRUE
    /\ pc' = "idle"
    /\ UNCHANGED <<systemDelay, received, processedLog, laserCloudIn, scanTime,
                   startOri, endOri, imuIdx, halfPassed, point, laserCloudScans,
                   i, stage, oriLog, laserCloud, scanStartIndices,
                   scanEndIndices, imuHistory, imuStartIdx, imuCur, extracted>>

\* the orientation history receives a state with a later time stamp, between
\* two cloud messages
HandleIMUMessage(stamps) ==
    /\ pc = "idle"
    /\ Len(imuHistory) < MaxHist
    /\ \E stamp \in stamps :
          /\ Len(imuHistory) > 0 => stamp > imuHistory[Len(imuHistory)]
          /\ imuHistory' = Append(imuHistory, stamp)
    /\ UNCHANGED <<systemDelay, received, pc>>
    /\ UNCHANGED sweepVars

(***************************************************************************)
(* Specifications                                                          *)
(***************************************************************************)
\* arrival number of the first message handed to process().  A sweep's
\* processing reads nothing an earlier sweep wrote (process() sets every
\* local, reset() the members), so the specifications of one sweep's
\* processing stop after this message; SpecDelay goes on to later ones.
FirstSweep == SystemDelay + 1
\* arrival number of the last message of the start-up specification
LastDelaySweep == SystemDelay + MaxDelaySweeps
\* ring assembly: sweeps of points of every validity kind, no orientation
\* history
NextRing ==
    \/ ProcessCloudMessageDelay(FirstSweep)
    \/ ProcessCloudMessage(RingMsgs, FirstSweep)
    \/ ProcessEmptyCloud(RingPoints, FirstSweep)
    \/ ProcessEmptyCloudFault(FirstSweep)
    \/ ClassifyPoint
    \/ AssembleRings
    \/ ExtractFeatures
    \/ SetIMUTrans
    \/ PublishResult
Spec == Init /\ [][NextRing]_vars

\* horizontal unwrap: sweeps of level points in every compass direction
NextUnwrap ==
    \/ ProcessCloudMessageDelay(FirstSweep)
    \/ ProcessCloudMessage(UnwrapMsgs, FirstSweep)
    \/ ProcessEmptyCloud(UnwrapPoints, FirstSweep)
    \/ ProcessEmptyCloudFault(FirstSweep)
    \/ ClassifyPoint
    \/ AssembleRings
    \/ ExtractFeatures
    \/ SetIMUTrans
    \/ PublishResult
SpecUnwrap == Init /\ [][NextUnwrap]_vars

\* motion compensation: sweeps of level points against orientation histories
NextImu ==
    \/ HandleIMUMessage(ImuStamps)
    \/ ProcessCloudMessageDelay(FirstSweep)
    \/ ProcessCloudMessage(ImuMsgs, FirstSweep)
    \/ ProcessEmptyCloud(ImuPoints, FirstSweep)
    \/ ProcessEmptyCloudFault(FirstSweep)
    \/ ClassifyPoint
    \/ AssembleRings
    \/ ExtractFeatures
    \/ SetIMUTrans
    \/ PublishResult
SpecImu == Init /\ [][NextImu]_vars

\* start-up delay: several sweeps after the delay
NextDelay ==
    \/ ProcessCloudMessageDelay(LastDelaySweep)
    \/ ProcessCloudMessage(DelayMsgs, LastDelaySweep)
    \/ ProcessEmptyCloud(DelayPoints, LastDelaySweep)
    \/ ProcessEmptyCloudFault(LastDelaySweep)
    \/ ClassifyPoint
    \/ AssembleRings
    \/ ExtractFeatures
    \/ SetIMUTrans
    \/ PublishResult
SpecDelay == Init /\ [][NextDelay]_vars

(***************************************************************************)
(* Properties                                                              *)
(***************************************************************************)
\* process() was entered for a sweep and did not fault
Started == processedLog # <<>> /\ pc # "crashed"
\* the ring loop of the current sweep has run
PostAssembly == Started /\ (pc \in {"extract", "imutrans", "publish"}
                            \/ (pc = "idle" /\ published))

\* a raw point passes the validity filter: finite, not at the origin, and
\* its ring within 0 .. NScans - 1
Survives(raw) ==
    LET p == Remap(ZeroPoint, raw)
    IN  /\ IsFinitePoint(p)
        /\ ~IsZeroPoint(p)
        /\ ~RingOutOfRange(ScanID(RoundedAngle(ScanAngle(p))))
RingOf(raw) == ScanID(RoundedAngle(ScanAngle(Remap(ZeroPoint, raw))))
SurvivorCount == Cardinality({k \in 1 .. Len(laserCloudIn) : Survives(laserCloudIn[k])})

\* sum of ringEnd - ringStart + 1 over the populated rings below r
RECURSIVE RangeSum(_)
RangeSum(r) ==
    IF r = 0 THEN 0
    ELSE RangeSum(r - 1)
         + (IF Len(laserCloudScans[r - 1]) > 0
            THEN scanEndIndices[r - 1] - scanStartIndices[r - 1] + 1
            ELSE 0)

\* C1: after the ring loop, the sum over the populated rings of
\* ringEnd - ringStart + 1, and the size of the assembled cloud, equal the
\* number of input points that pass the validity filter.
C1_RangesCountSurvivors ==
    PostAssembly =>
        /\ RangeSum(NScans) = SurvivorCount
        /\ Len(laserCloud) = SurvivorCount
\* a sweep with two populated rings and a dropped point has been assembled
C1_Witness ==
    /\ PostAssembly
    /\ SurvivorCount >= 2
    /\ SurvivorCount < Len(laserCloudIn)
    /\ Cardinality({r \in Rings : Len(laserCloudScans[r]) > 0}) >= 2

\* C2: after the ring loop the ranges are contiguous and in ring order:
\* ringStart[0] = 0, ringEnd[r] = ringStart[r + 1] - 1 for r < N - 1, and
\* ringStart[r] > ringEnd[r] exactly when ring r received no point.
C2_RangesContiguous ==
    PostAssembly =>
        /\ scanStartIndices[0] = 0
        /\ \A r \in 0 .. (NScans - 2) :
              scanEndIndices[r] = scanStartIndices[r + 1] - 1
        /\ \A r \in Rings :
              (scanStartIndices[r] > scanEndIndices[r]) <=> (Len(laserCloudScans[r]) = 0)

\* C3: for finite first and last points, after the correction step the
\* span endOri - startOri lies in [pi, 3 pi].
C3_SpanInRange ==
    (Started /\ ~IsNaN(startOri) /\ ~IsNaN(endOri)) =>
        (PI <= endOri - startOri /\ endOri - startOri <= 3 * PI)
\* a sweep whose uncorrected span is below pi, so that the correction added
\* a turn
C3_Witness ==
    /\ Started
    /\ Len(laserCloudIn) >= 2
    /\ FNeg(Atan2(laserCloudIn[Len(laserCloudIn)].y, laserCloudIn[Len(laserCloudIn)].x))
         + 2 * PI - startOri < PI
    /\ endOri - startOri >= PI

\* a raw point usable for the orientation bootstrap: finite and not at the
\* origin
Usable(raw) == LET p == Remap(ZeroPoint, raw) IN IsFinitePoint(p) /\ ~IsZeroPoint(p)
UsableCount == Cardinality({k \in 1 .. Len(laserCloudIn) : Usable(laserCloudIn[k])})

\* C4: a sweep with fewer than two usable points is rejected: no assembled
\* cloud, no feature extraction and no publication for it.
C4_ShortSweepRejected ==
    (processedLog # <<>> /\ UsableCount < 2) =>
        /\ laserCloud = <<>>
        /\ ~extracted
        /\ ~published
        /\ pc \notin {"extract", "imutrans", "publish"}

\* C5: every point in ring buffer r carries a packed scalar that is a number
\* whose floor is r, that is, ringID + relTime with 0 <= relTime < 1.
C5_PackedScalarDecodes ==
    \A r \in Rings : \A k \in 1 .. Len(laserCloudScans[r]) :
        LET q == laserCloudScans[r][k].intensity
        IN  ~q.nan /\ q.num \div q.den = r

\* the coordinates ring buffer r holds after the first k input points when
\* every surviving point keeps its axis-remapped raw coordinates
RECURSIVE RawRing(_, _)
RawRing(r, k) ==
    IF k = 0 THEN <<>>
    ELSE LET raw == laserCloudIn[k]
         IN  IF Survives(raw) /\ RingOf(raw) = r
             THEN Append(RawRing(r, k - 1), <<raw.y, raw.z, raw.x, "none">>)
             ELSE RawRing(r, k - 1)
Coords(points) ==
    [j \in 1 .. Len(points) |->
        <<points[j].x, points[j].y, points[j].z, points[j].comp.kind>>]
RECURSIVE RawCloud(_)
RawCloud(r) ==
    IF r = 0 THEN <<>> ELSE RawCloud(r - 1) \o RawRing(r - 1, Len(laserCloudIn))

\* C6: with an empty orientation history the cursor stays where reset() put
\* it, _imuCur is not set, every surviving point is stored with its
\* axis-remapped raw coordinates and no transform, and the sweep goes on to
\* ring assembly, feature extraction and publication.
C6_EmptyHistorySkipsCompensation ==
    (Started /\ Len(imuHistory) = 0) =>
        /\ imuIdx = imuStartIdx
        /\ imuCur = ImuStart
        /\ \A r \in Rings : Coords(laserCloudScans[r]) = RawRing(r, i)
        /\ PostAssembly => Coords(laserCloud) = RawCloud(NScans)
        /\ pc = "idle" => (extracted /\ published)
\* a sweep of three points was published while the history was empty
C6_Witness ==
    /\ Started
    /\ Len(imuHistory) = 0
    /\ pc = "idle"
    /\ published
    /\ Len(laserCloud) >= 3

\* relTime of the point the last iteration stored
LastRel == RelTime(oriLog[Len(oriLog)], startOri, endOri)
\* the last iteration stored a point and ran the motion compensator on it
Compensated ==
    /\ Started
    /\ pc \in {"loop", "extract", "imutrans", "publish"}
    /\ stage = "stored"
    /\ Len(imuHistory) > 0
\* the point's time stamp is at or after (after) history entry idx, from 0
AtOrAfterStamp(idx) ==
    /\ ~LastRel.nan
    /\ (scanTime - imuHistory[idx + 1]) * LastRel.den + LastRel.num * TicksPerSec >= 0
StrictlyAfterStamp(idx) ==
    /\ ~LastRel.nan
    /\ (scanTime - imuHistory[idx + 1]) * LastRel.den + LastRel.num * TicksPerSec > 0
Entry(idx) == [kind |-> "entry", idx |-> idx, ratio |-> FracZero]
Latest == Len(imuHistory) - 1

C7_StatePart ==
    Compensated =>
        /\ imuIdx = 0 => imuCur = Entry(0)
        /\ StrictlyAfterStamp(Latest) => (imuIdx = Latest /\ imuCur = Entry(Latest))
\* C7 as amended, its step part: a point with relTime = 0, met with the
\* cursor still at the first entry of a history whose first time stamp is
\* the sweep's, leaves the cursor there and uses that entry.
C7_StepPart ==
    (/\ pc = "loop"
     /\ i' = i + 1
     /\ stage' = "stored"
     /\ Len(imuHistory) > 0
     /\ imuHistory[1] = scanTime
     /\ imuIdx = 0
     /\ LastRel' = FracZero)
    => (imuIdx' = 0 /\ imuCur' = Entry(0))
C8_InterpolationBrackets ==
    (Compensated /\ imuCur.kind = "interp") =>
        /\ ~imuCur.ratio.nan
        /\ 0 <= imuCur.ratio.num
        /\ imuCur.ratio.num <= imuCur.ratio.den

Min(a, b) == IF a < b THEN a ELSE b
Max(a, b) == IF a > b THEN a ELSE b

\* C10: the first 20 messages only decrement _systemDelay, which never goes
\* below 0; every later message is handed to process() once, in arrival
\* order.
C10_StartupDelay ==
    /\ systemDelay >= 0
    /\ systemDelay = SystemDelay - Min(received, SystemDelay)
    /\ processedLog =
         [k \in 1 .. Max(received - SystemDelay, 0) |-> SystemDelay + k]
\* three sweeps were processed after the delay
C10_Witness ==
    /\ Len(processedLog) >= 3
    /\ systemDelay = 0
    /\ pc = "idle"
    /\ published

\* the raw horizontal angle of input point k, -atan2(y, x)
RawOri(k) == StartOri(laserCloudIn[k])
\* the angle of input point k when the raw angles advance in scan direction
\* from the first point on, each step by less than a turn
RECURSIVE Phi(_)
Phi(k) ==
    IF k = 1 THEN RawOri(1)
    ELSE Phi(k - 1) + ((RawOri(k) - RawOri(k - 1)) % (2 * PI))
\* the sweep advances in scan direction from startOri to endOri
MonotoneSweep ==
    /\ Started
    /\ Len(laserCloudIn) >= 1
    /\ Phi(Len(laserCloudIn)) = endOri
\* ori, as computed so far, never decreases and stays within the sweep
OriMonotone ==
    \A k \in 1 .. Len(oriLog) :
        /\ startOri <= oriLog[k]
        /\ oriLog[k] <= endOri
        /\ k > 1 => oriLog[k - 1] <= oriLog[k]

\* C9: for a sweep whose raw angles advance in scan direction from the
\* first point's angle to the last point's over a span in [pi, 3 pi], the
\* unwrapped ori is non-decreasing in input order and within
\* [startOri, endOri].
C9_OriMonotone == MonotoneSweep => OriMonotone
====
